---- MODULE Spec2Model ----
(***************************************************************************)
(* Upload-and-poll subsystem of the Dataset Cleaner frontend.              *)
(*                                                                         *)
(*   usePolling        services/api.ts (hooks/usePolling)                  *)
(*   JobStatusTracker  components/JobStatusTracker                         *)
(*   System            pages/System                                        *)
(*                                                                         *)
(*   FileUpload        components/FileUpload                               *)
(*                                                                         *)
(* The specifications share the variables:                                 *)
(*   Spec      one JobStatusTracker session driving usePolling against a   *)
(*             status endpoint                                             *)
(*   HookSpec  one usePolling instance under an arbitrary caller           *)
(*   SysSpec   the System page's manual status check                       *)
(*   UpSpec    one FileUpload: file selection and upload                   *)
(*   PairSpec  two JobStatusTracker instances on one page                  *)
(*   PropSpec  one JobStatusTracker whose jobId prop changes               *)
(*   LiveSpec  one JobStatusTracker with fair timers and responses         *)
(*                                                                         *)
(* Nullable values are options: <<>> is null/undefined, <<x>> is x.        *)
(***************************************************************************)
EXTENDS Integers, Sequences, FiniteSets, TLC

\* ------------------------------------------------------------------ bounds
MaxCalls == 2        \* callback invocations (status queries) per behaviour
MaxTimers == 2       \* setInterval calls per behaviour
MaxSysReqs == 2      \* manual status checks per behaviour
MaxUploads == 2      \* successful uploads per behaviour
MaxUploadCalls == 2  \* handleUpload invocations per behaviour

\* --------------------------------------------------------------- constants
PollInterval == 2000
Intervals == {1000, PollInterval}
TrackedJob == 1      \* the jobId prop of the tracker; job ids are 1, 2, ...
ProgressLevels == {45, 80}
FailMessages == {"", "corrupt archive"}
TerminalOrProcessing == {"completed", "failed", "processing"}
Terminal == {"completed", "failed"}
NonTerminal == {"uploaded", "processing"}
DefaultFetchError == "Failed to fetch job status"
JobNotFound == "Job not found"
JobFailed == "Job failed"

VARIABLES
  \* usePolling
  opts,             \* options of the latest render: interval, enabled, immediate
  deps,             \* dependency values the polling effect last ran with
  intervalRef,      \* intervalRef.current: 0 is undefined, else a timer id
  timers,           \* ids of the interval timers the window holds active
  nextTimer,        \* number of setInterval calls made so far
  calls,            \* number of invocations of savedCallback.current
  mounted,
  stopped,          \* history: stop() returned, enabled not switched on since
  stopIdle,         \* history: stop() was called while no timer was active
  \* JobStatusTracker
  isPolling, job, error,
  reqs,             \* getJobStatus calls of the tracker, by issue order
  srv,              \* the job as the server holds it
  answered,         \* number of responses the server has produced
  lastOrd,          \* history: answer order of the snapshot last applied
  prevJob,          \* history: the snapshot held before the last one applied
  terminalSeen,     \* history: a completed/failed snapshot has been applied
  onCompleteCalls,  \* number of onComplete invocations
  onErrorCalls,     \* messages passed to onError, in order
  trackedJob,       \* the jobId prop of the latest render
  savedJob,         \* the jobId closed over by savedCallback.current
  \* System
  uploadedJob, currentJobStatus, checkingStatus, showUploadForm,
  sysReqs,          \* getJobStatus calls of handleCheckForDownload
  uploads,          \* number of successful uploads so far
  downloadLog,      \* history: job ids given to getDownloadUrl by the page
  \* FileUpload
  selectedFile, uploading, uploadProgress,
  progressTimers,   \* ids of the active simulated-progress intervals
  upReqs,           \* uploadDataset calls, by issue order
  uploadCalls,      \* history: handleUpload invocations that had a file
  onUploadSuccessCalls,   \* responses passed to onUploadSuccess, in order
  onUploadErrorCalls,     \* messages passed to onUploadError, in order
  lastPick,         \* history: the file last given to handleFileSelect
  \* two JobStatusTracker instances on one page
  sess,             \* per instance: isPolling, job, error, the usePolling state
  winTimers,        \* ids of the interval timers active in the window
  winNext,          \* last timer id handed out by window.setInterval
  pairCalls         \* fetchJobStatus invocations of both instances so far

hookVars == <<opts, deps, intervalRef, timers, nextTimer, calls, mounted, stopped,
              stopIdle>>
trackerVars == <<isPolling, job, error, reqs, srv, answered, lastOrd, prevJob,
                 terminalSeen, onCompleteCalls, onErrorCalls, trackedJob,
                 savedJob>>
sysVars == <<uploadedJob, currentJobStatus, checkingStatus, showUploadForm,
             sysReqs, uploads, downloadLog>>
upVars == <<selectedFile, uploading, uploadProgress, progressTimers, upReqs,
            uploadCalls, onUploadSuccessCalls, onUploadErrorCalls, lastPick>>
pairVars == <<sess, winTimers, winNext, pairCalls>>

vars == <<hookVars, trackerVars, sysVars, upVars, pairVars>>

\* --------------------------------------------------------------- api.ts
\* JobStatus, as returned by GET /api/v1/job/{id}
Snapshot(id, s) ==
  [job_id |-> id, status |-> s.status, progress |-> s.progress,
   message |-> s.message, download_url |-> (s.status = "completed")]

\* the server's view of a freshly uploaded job
SrvInit == [status |-> "uploaded", progress |-> 0, message |-> "queued"]

\* the lifecycle uploaded -> processing -> {completed, failed}, progress
\* never decreasing
SrvNext(s) ==
  IF s.status \in Terminal THEN {}
  ELSE {[status |-> "processing", progress |-> p, message |-> "working"] :
           p \in {q \in ProgressLevels : q > s.progress}}
       \cup {[status |-> "completed", progress |-> 100, message |-> "done"]}
       \cup {[status |-> "failed", progress |-> s.progress, message |-> m] :
           m \in FailMessages}

\* rejected promises of api.get: err.response?.status (0: no response at
\* all) and err.response?.data?.detail
Failures ==
  { [kind |-> "err", status |-> 404, detail |-> <<JobNotFound>>],
    [kind |-> "err", status |-> 500, detail |-> <<"Internal Server Error">>],
    [kind |-> "err", status |-> 0, detail |-> <<>>] }

Ok(snap) == [kind |-> "ok", snap |-> snap]

Free == [st |-> "free"]
Pending(id) == [st |-> "pending", job_id |-> id]
Answered(r, n) == [st |-> "answered", resp |-> r, ord |-> n]
Done == [st |-> "done"]

\* ------------------------------------------------------------ usePolling
Options == [interval : Intervals, enabled : BOOLEAN, immediate : BOOLEAN]

\* if (intervalRef.current) { clearInterval(...); intervalRef.current = undefined }
ClearIntervalRef(ref, tm) ==
  [ref |-> 0, timers |-> IF ref # 0 THEN tm \ {ref} ELSE tm]

\* a cleanup that clears the timer and keeps its id in the ref
EffectCleanupStale(ref, tm) == [ref |-> ref, timers |-> tm \ {ref}]

\* a cleanup that forgets the timer without clearing it
EffectCleanupLeak(ref, tm) == [ref |-> 0, timers |-> tm]

\* the function returned by the polling effect
EffectCleanup(ref, tm) == ClearIntervalRef(ref, tm)

\* The polling effect, flushed after a render whose [interval, enabled,
\* immediate] differ from the values it last ran with: the previous run's
\* cleanup (only a run with enabled returned one), then the effect body.
\* n is the number of callback invocations the flush makes.
EffectRun(o, d, ref, tm, next) ==
  LET c == IF d # <<>> /\ d[1].enabled
           THEN EffectCleanup(ref, tm)
           ELSE [ref |-> ref, timers |-> tm]
  IN IF o.enabled
     THEN LET e == ClearIntervalRef(c.ref, c.timers)
              id == next + 1
          IN [ref |-> id, timers |-> e.timers \cup {id}, next |-> id,
              n |-> IF o.immediate THEN 1 ELSE 0]
     ELSE [ref |-> c.ref, timers |-> c.timers, next |-> next, n |-> 0]

\* the flush of the polling effect of the hook instance held in the hook
\* variables
PollingEffect(n) ==
  /\ mounted
  /\ deps # <<opts>>
  /\ LET e == EffectRun(opts, deps, intervalRef, timers, nextTimer)
     IN /\ n = e.n
        /\ opts.enabled => (calls + n <= MaxCalls /\ nextTimer < MaxTimers)
        /\ intervalRef' = e.ref
        /\ timers' = e.timers
        /\ nextTimer' = e.next
  /\ calls' = calls + n
  /\ deps' = <<opts>>
  /\ UNCHANGED <<opts, mounted, stopped, stopIdle>>

\* an interval timer fires: tick() invokes savedCallback.current
tick ==
  /\ timers # {}
  /\ calls < MaxCalls
  /\ calls' = calls + 1
  /\ UNCHANGED <<opts, deps, intervalRef, timers, nextTimer, mounted, stopped,
                 stopIdle>>

\* stop()
stop ==
  LET c == ClearIntervalRef(intervalRef, timers)
  IN /\ intervalRef' = c.ref
     /\ timers' = c.timers


\* ------------------------------------------------- usePolling, any caller
\* the caller renders again with other options
Render(o) ==
  /\ mounted
  /\ deps = <<opts>>
  /\ o # opts
  /\ opts' = o
  /\ stopped' = (stopped /\ ~(~opts.enabled /\ o.enabled))
  /\ UNCHANGED <<deps, intervalRef, timers, nextTimer, calls, mounted, stopIdle>>
  /\ UNCHANGED <<trackerVars, sysVars, upVars, pairVars>>

HookFlush ==
  /\ \E n \in 0..1 : PollingEffect(n)
  /\ UNCHANGED <<trackerVars, sysVars, upVars, pairVars>>

HookTick ==
  /\ tick
  /\ UNCHANGED <<trackerVars, sysVars, upVars, pairVars>>

\* the caller calls stop(); the history records a stop() made while no effect
\* flush was outstanding
HookStop ==
  /\ stop
  /\ stopped' = (stopped \/ deps = <<opts>>)
  /\ stopIdle' = (stopIdle \/ timers = {})
  /\ UNCHANGED <<opts, deps, nextTimer, calls, mounted>>
  /\ UNCHANGED <<trackerVars, sysVars, upVars, pairVars>>

\* the component unmounts: the cleanup of the last effect run is called
Unmount ==
  /\ mounted
  /\ deps = <<opts>>
  /\ mounted' = FALSE
  /\ LET c == IF deps[1].enabled
              THEN EffectCleanup(intervalRef, timers)
              ELSE [ref |-> intervalRef, timers |-> timers]
     IN /\ intervalRef' = c.ref
        /\ timers' = c.timers
  /\ UNCHANGED <<opts, deps, nextTimer, calls, stopped, stopIdle>>
  /\ UNCHANGED <<trackerVars, sysVars, upVars, pairVars>>

\* ------------------------------------------------------- JobStatusTracker
\* options that keep the driver enabled whatever isPolling is
TrackerOptionsAlways(polling) ==
  [interval |-> PollInterval, enabled |-> TRUE, immediate |-> TRUE]

\* usePolling(fetchJobStatus, {interval: 2000, enabled: isPolling, immediate: true})
TrackerOptions(polling) ==
  [interval |-> PollInterval, enabled |-> polling, immediate |-> TRUE]

\* the tracker instances of a page that shows two jobs
Sessions == {1, 2}

\* jobId of instance k
jobId(k) == k

\* a dispatch that is skipped while an earlier query is unsettled
DispatchIfIdle(id, n) ==
  reqs' = [i \in 1..MaxCalls |->
             IF /\ i > calls /\ i <= calls + n
                /\ \A j \in 1..MaxCalls : reqs[j].st \notin {"pending", "answered"}
             THEN Pending(id) ELSE reqs[i]]

\* fetchJobStatus up to its await: n calls of apiService.getJobStatus(jobId)
\* by a callback whose closure holds the jobId id
Dispatch(id, n) ==
  reqs' = [i \in 1..MaxCalls |->
             IF i > calls /\ i <= calls + n THEN Pending(id) ELSE reqs[i]]

\* err.response?.data?.detail || 'Failed to fetch job status'
ErrorText(detail) ==
  IF detail # <<>> /\ detail[1] # "" THEN detail[1] ELSE DefaultFetchError

\* every HTTP error status taken as fatal
IsAnyHttpError(status) == status >= 400

\* err.response?.status === 404
IsNotFound(status) == status = 404

\* the fixed text in place of the snapshot's message
FailureTextFixed(message) == JobFailed

\* status.message || 'Job failed'
FailureText(message) == IF message # "" THEN message ELSE JobFailed

\* the snapshot stored with the remaining share in place of the progress
AppliedJobRemaining(snap) == <<[snap EXCEPT !.progress = 100 - snap.progress]>>

\* setJob(status)
AppliedJob(snap) == <<snap>>

\* a handler that keeps the first snapshot it was given
fetchJobStatusKeepFirst(polling, held, r) ==
  IF r.kind = "ok"
  THEN [job |-> IF held # <<>> THEN held ELSE AppliedJob(r.snap),
        error |-> <<>>,
        isPolling |-> polling /\ r.snap.status \notin Terminal,
        onComplete |-> IF r.snap.status = "completed" THEN 1 ELSE 0,
        onError |-> IF r.snap.status = "failed"
                    THEN <<FailureText(r.snap.message)>> ELSE <<>>]
  ELSE [job |-> held,
        error |-> <<ErrorText(r.detail)>>,
        isPolling |-> polling /\ ~IsNotFound(r.status),
        onComplete |-> 0,
        onError |-> IF IsNotFound(r.status) THEN <<JobNotFound>> ELSE <<>>]

\* a handler that switches polling back on for a job still in progress
fetchJobStatusResuming(polling, held, r) ==
  IF r.kind = "ok"
  THEN [job |-> AppliedJob(r.snap),
        error |-> <<>>,
        isPolling |-> r.snap.status \notin Terminal,
        onComplete |-> IF r.snap.status = "completed" THEN 1 ELSE 0,
        onError |-> IF r.snap.status = "failed"
                    THEN <<FailureText(r.snap.message)>> ELSE <<>>]
  ELSE [job |-> held,
        error |-> <<ErrorText(r.detail)>>,
        isPolling |-> polling /\ ~IsNotFound(r.status),
        onComplete |-> 0,
        onError |-> IF IsNotFound(r.status) THEN <<JobNotFound>> ELSE <<>>]

\* fetchJobStatus after its await, for the response r, in an instance whose
\* state holds polling and held: the state it sets and the callbacks it invokes
fetchJobStatusIn(polling, held, r) ==
  IF r.kind = "ok"
  THEN [job |-> AppliedJob(r.snap),
        error |-> <<>>,
        isPolling |-> polling /\ r.snap.status \notin Terminal,
        onComplete |-> IF r.snap.status = "completed" THEN 1 ELSE 0,
        onError |-> IF r.snap.status = "failed"
                    THEN <<FailureText(r.snap.message)>> ELSE <<>>]
  ELSE [job |-> held,
        error |-> <<ErrorText(r.detail)>>,
        isPolling |-> polling /\ ~IsNotFound(r.status),
        onComplete |-> 0,
        onError |-> IF IsNotFound(r.status) THEN <<JobNotFound>> ELSE <<>>]

\* fetchJobStatus after its await in the tracker held in the tracker variables
fetchJobStatus(r) == fetchJobStatusIn(isPolling, job, r)

\* the passive effects of a render are flushed: savedCallback.current takes
\* the callback of that render, then the polling effect runs
TrackerFlush ==
  /\ \E n \in 0..1 : PollingEffect(n) /\ Dispatch(trackedJob, n)
  /\ savedJob' = trackedJob
  /\ UNCHANGED <<isPolling, job, error, srv, answered, lastOrd, prevJob, terminalSeen,
                 onCompleteCalls, onErrorCalls, trackedJob>>
  /\ UNCHANGED <<sysVars, upVars, pairVars>>

TrackerTick ==
  /\ tick
  /\ Dispatch(savedJob, 1)
  /\ UNCHANGED <<isPolling, job, error, srv, answered, lastOrd, prevJob, terminalSeen,
                 onCompleteCalls, onErrorCalls, trackedJob, savedJob>>
  /\ UNCHANGED <<sysVars, upVars, pairVars>>

\* the job makes progress on the server
ServerAdvance ==
  /\ \E s \in SrvNext(srv) : srv' = s
  /\ UNCHANGED <<isPolling, job, error, reqs, answered, lastOrd, prevJob, terminalSeen,
                 onCompleteCalls, onErrorCalls, trackedJob, savedJob>>
  /\ UNCHANGED <<hookVars, sysVars, upVars, pairVars>>

\* the server (or the transport) produces the outcome of query i
ServerAnswer(i) ==
  /\ reqs[i].st = "pending"
  /\ \E r \in {Ok(Snapshot(reqs[i].job_id, srv))} \cup Failures :
        reqs' = [reqs EXCEPT ![i] = Answered(r, answered + 1)]
  /\ answered' = answered + 1
  /\ UNCHANGED <<isPolling, job, error, srv, lastOrd, prevJob, terminalSeen,
                 onCompleteCalls, onErrorCalls, trackedJob, savedJob>>
  /\ UNCHANGED <<hookVars, sysVars, upVars, pairVars>>

\* the promise of query i settles and fetchJobStatus resumes; the state it
\* sets renders the tracker again with enabled: isPolling
Deliver(i) ==
  /\ reqs[i].st = "answered"
  /\ LET r == reqs[i].resp
         f == fetchJobStatus(r)
     IN /\ job' = f.job
        /\ error' = f.error
        /\ isPolling' = f.isPolling
        /\ onCompleteCalls' = onCompleteCalls + f.onComplete
        /\ onErrorCalls' = onErrorCalls \o f.onError
        /\ opts' = TrackerOptions(f.isPolling)
        /\ lastOrd' = IF r.kind = "ok" THEN reqs[i].ord ELSE lastOrd
        /\ prevJob' = IF r.kind = "ok" THEN job ELSE prevJob
        /\ terminalSeen' = (terminalSeen \/
                              (r.kind = "ok" /\ r.snap.status \in Terminal))
  /\ reqs' = [reqs EXCEPT ![i] = Done]
  /\ UNCHANGED <<srv, answered, trackedJob, savedJob>>
  /\ UNCHANGED <<deps, intervalRef, timers, nextTimer, calls, mounted, stopped,
                 stopIdle>>
  /\ UNCHANGED <<sysVars, upVars, pairVars>>

\* the Stop Tracking button, rendered while isPolling and a job is shown
handleStop ==
  /\ isPolling
  /\ job # <<>>
  /\ isPolling' = FALSE
  /\ stop
  /\ stopped' = TRUE
  /\ stopIdle' = (stopIdle \/ timers = {})
  /\ opts' = TrackerOptions(FALSE)
  /\ UNCHANGED <<deps, nextTimer, calls, mounted>>
  /\ UNCHANGED <<job, error, reqs, srv, answered, lastOrd, prevJob, terminalSeen,
                 onCompleteCalls, onErrorCalls, trackedJob, savedJob>>
  /\ UNCHANGED <<sysVars, upVars, pairVars>>

\* ------------------------------------------------------------ FileUpload
\* Strings whose characters matter (file names, acceptedTypes) are sequences
\* of one-character strings.

\* acceptedTypes = ".zip,.jpg,.jpeg,.png,.bmp,.tiff,.webp"
AcceptedTypes ==
  <<".", "z", "i", "p", ",", ".", "j", "p", "g", ",", ".", "j", "p", "e",
    "g", ",", ".", "p", "n", "g", ",", ".", "b", "m", "p", ",", ".", "t",
    "i", "f", "f", ",", ".", "w", "e", "b", "p">>

\* maxSize, in MB
MaxSizeMB == 1024

UpperCase ==
  <<"A", "B", "C", "D", "E", "F", "G", "H", "I", "J", "K", "L", "M", "N",
    "O", "P", "Q", "R", "S", "T", "U", "V", "W", "X", "Y", "Z">>

LowerCase ==
  <<"a", "b", "c", "d", "e", "f", "g", "h", "i", "j", "k", "l", "m", "n",
    "o", "p", "q", "r", "s", "t", "u", "v", "w", "x", "y", "z">>

LowerChar(c) ==
  IF \E i \in 1..Len(UpperCase) : UpperCase[i] = c
  THEN LowerCase[CHOOSE i \in 1..Len(UpperCase) : UpperCase[i] = c]
  ELSE c

toLowerCase(str) == [i \in 1..Len(str) |-> LowerChar(str[i])]

\* name.split('.').pop(): the text after the last dot, the whole name when
\* it has no dot
LastPiece(name) ==
  LET dots == {i \in 1..Len(name) : name[i] = "."}
  IN IF dots = {} THEN name
     ELSE LET last == CHOOSE i \in dots : \A j \in dots : j <= i
          IN SubSeq(name, last + 1, Len(name))

\* '.' + file.name.split('.').pop()?.toLowerCase()
FileExtension(name) == <<".">> \o toLowerCase(LastPiece(name))

\* String.prototype.includes: needle occurs in hay as a substring
includes(hay, needle) ==
  \E i \in 0..(Len(hay) - Len(needle)) :
     SubSeq(hay, i + 1, i + Len(needle)) = needle

\* a size test that also turns away a file of exactly the limit
SizeAtLeast(size, maxSize) == size >= maxSize * 1024 * 1024

\* file.size > maxSize * 1024 * 1024
SizeExceeded(size, maxSize) == size > maxSize * 1024 * 1024

\* !acceptedTypes.includes(fileExtension)
TypeRejected(name) == ~includes(AcceptedTypes, FileExtension(name))

\* a selection that drops the held file when the offered one is turned away
SelectResultClearing(f, current) ==
  IF SizeExceeded(f.size, MaxSizeMB) THEN <<>>
  ELSE IF TypeRejected(f.name) THEN <<>>
  ELSE <<f>>

\* handleFileSelect: the selected file after file f was offered
SelectResult(f, current) ==
  IF SizeExceeded(f.size, MaxSizeMB) THEN current
  ELSE IF TypeRejected(f.name) THEN current
  ELSE <<f>>

SizeLimit == MaxSizeMB * 1024 * 1024

\* the files the user offers
Files ==
  { [name |-> <<"a", ".", "z", "i", "p">>, size |-> SizeLimit],
    [name |-> <<"a", ".", "z", "i", "p">>, size |-> SizeLimit + 1],
    [name |-> <<"B", ".", "J", "P", "G">>, size |-> 1],
    [name |-> <<"c", ".", "j", "p">>, size |-> 1],
    [name |-> <<"d", ".", "e", "x", "e">>, size |-> 1],
    [name |-> <<"n", "o", "e", "x", "t">>, size |-> 1] }

\* rejected promises of api.post: err.response?.status (0: no response at
\* all) and err.response?.data?.detail
UploadFailures ==
  { [kind |-> "err", status |-> 400, detail |-> <<"Invalid quality mode">>],
    [kind |-> "err", status |-> 500, detail |-> <<>>],
    [kind |-> "err", status |-> 0, detail |-> <<>>] }

GenericUploadError == "Upload failed. Please try again."

\* UploadResponse of upload k: the server assigns a new job id
UploadResponseOf(k) == [job_id |-> k]

UploadPending(f) == [st |-> "pending", file |-> f]

\* a message that drops the server's detail
UploadErrorTextGeneric(detail) == GenericUploadError

\* error.response?.data?.detail || 'Upload failed. Please try again.'
UploadErrorText(detail) ==
  IF detail # <<>> /\ detail[1] # "" THEN detail[1] ELSE GenericUploadError

\* a submission that sends the request twice
IssueUploadTwice(rs, k, f) ==
  [i \in DOMAIN rs |-> IF i \in {k, k + 1} THEN UploadPending(f) ELSE rs[i]]

\* apiService.uploadDataset(selectedFile, ...): one POST /api/v1/upload
IssueUpload(rs, k, f) == [rs EXCEPT ![k] = UploadPending(f)]

\* an upload whose success is also reported as a failure
handleUploadResultBoth(r) ==
  IF r.kind = "ok"
  THEN [clearTimer |-> TRUE, success |-> <<r.data>>,
        error |-> <<GenericUploadError>>]
  ELSE [clearTimer |-> FALSE, success |-> <<>>,
        error |-> <<UploadErrorText(r.detail)>>]

\* handleUpload after its await, for the outcome r: whether the progress
\* interval is cleared and which callback is invoked with what
handleUploadResult(r) ==
  IF r.kind = "ok"
  THEN [clearTimer |-> TRUE, success |-> <<r.data>>, error |-> <<>>]
  ELSE [clearTimer |-> FALSE, success |-> <<>>,
        error |-> <<UploadErrorText(r.detail)>>]

\* a file arrives from the file input or from a drop
handleFileSelect(f) ==
  /\ selectedFile' = SelectResult(f, selectedFile)
  /\ lastPick' = <<f>>
  /\ UNCHANGED <<uploading, uploadProgress, progressTimers, upReqs, uploadCalls,
                 onUploadSuccessCalls, onUploadErrorCalls>>
  /\ UNCHANGED <<hookVars, trackerVars, sysVars, pairVars>>

\* the X button, rendered while a file is selected and no upload runs
clearFile ==
  /\ selectedFile # <<>>
  /\ ~uploading
  /\ selectedFile' = <<>>
  /\ UNCHANGED <<uploading, uploadProgress, progressTimers, upReqs, uploadCalls,
                 onUploadSuccessCalls, onUploadErrorCalls, lastPick>>
  /\ UNCHANGED <<hookVars, trackerVars, sysVars, pairVars>>

\* the Start Processing button (rendered while a file is selected and no
\* upload runs), up to the await: the progress interval is started and the
\* request is issued
handleUpload ==
  /\ selectedFile # <<>>
  /\ ~uploading
  /\ uploadCalls < MaxUploadCalls
  /\ uploadCalls' = uploadCalls + 1
  /\ uploading' = TRUE
  /\ uploadProgress' = 0
  /\ progressTimers' = progressTimers \cup {uploadCalls + 1}
  /\ upReqs' = IssueUpload(upReqs, uploadCalls + 1, selectedFile[1])
  /\ UNCHANGED <<selectedFile, onUploadSuccessCalls, onUploadErrorCalls, lastPick>>
  /\ UNCHANGED <<hookVars, trackerVars, sysVars, pairVars>>

\* an estimate that runs on to 100
ProgressStepFull(prev) == IF prev + 10 < 100 THEN prev + 10 ELSE 100

\* prev => Math.min(prev + 10, 90)
ProgressStep(prev) == IF prev + 10 < 90 THEN prev + 10 ELSE 90

\* a progress interval fires: setUploadProgress(prev => Math.min(prev + 10, 90))
ProgressTick ==
  /\ progressTimers # {}
  /\ uploadProgress' = ProgressStep(uploadProgress)
  /\ UNCHANGED <<selectedFile, uploading, progressTimers, upReqs, uploadCalls,
                 onUploadSuccessCalls, onUploadErrorCalls, lastPick>>
  /\ UNCHANGED <<hookVars, trackerVars, sysVars, pairVars>>

\* handleUpload after its await, upload k settling with r: the try branch
\* clears the progress interval and reports success, the catch branch
\* reports the failure, and finally resets uploading and uploadProgress
UploadSettle(k, r) ==
  /\ upReqs[k].st = "pending"
  /\ upReqs' = [upReqs EXCEPT ![k] = Done]
  /\ LET h == handleUploadResult(r)
     IN /\ progressTimers' =
              (IF h.clearTimer THEN progressTimers \ {k} ELSE progressTimers)
        /\ onUploadSuccessCalls' = onUploadSuccessCalls \o h.success
        /\ onUploadErrorCalls' = onUploadErrorCalls \o h.error
  /\ uploading' = FALSE
  /\ uploadProgress' = 0
  /\ UNCHANGED <<selectedFile, uploadCalls, lastPick>>
  /\ UNCHANGED <<hookVars, trackerVars, sysVars, pairVars>>

UpInit ==
  /\ selectedFile = <<>>
  /\ uploading = FALSE
  /\ uploadProgress = 0
  /\ progressTimers = {}
  /\ upReqs = [i \in 1..MaxUploadCalls |-> Free]
  /\ uploadCalls = 0
  /\ onUploadSuccessCalls = <<>>
  /\ onUploadErrorCalls = <<>>
  /\ lastPick = <<>>

\* ------------------------------------------------------------ initial states
SysInit ==
  /\ uploadedJob = <<>>
  /\ currentJobStatus = <<>>
  /\ checkingStatus = FALSE
  /\ showUploadForm = TRUE
  /\ sysReqs = [i \in 1..MaxSysReqs |-> Free]
  /\ uploads = 0
  /\ downloadLog = {}

HookStart(o) ==
  /\ opts = o
  /\ deps = <<>>
  /\ intervalRef = 0
  /\ timers = {}
  /\ nextTimer = 0
  /\ calls = 0
  /\ mounted = TRUE
  /\ stopped = FALSE
  /\ stopIdle = FALSE

TrackerStart(autoStart) ==
  /\ isPolling = autoStart
  /\ job = <<>>
  /\ error = <<>>
  /\ reqs = [i \in 1..MaxCalls |-> Free]
  /\ srv = SrvInit
  /\ answered = 0
  /\ lastOrd = 0
  /\ prevJob = <<>>
  /\ terminalSeen = FALSE
  /\ onCompleteCalls = 0
  /\ onErrorCalls = <<>>
  /\ trackedJob = TrackedJob
  /\ savedJob = TrackedJob

\* a tracker after its first render, effects not yet flushed
\* two trackers after their first render, each for its own job
PairStart(autoStart) ==
  /\ sess = [k \in Sessions |->
               [isPolling |-> autoStart[k], job |-> <<>>, error |-> <<>>,
                opts |-> TrackerOptions(autoStart[k]), deps |-> <<>>,
                intervalRef |-> 0, reqs |-> <<>>]]
  /\ winTimers = {}
  /\ winNext = 0
  /\ pairCalls = 0

Init ==
  /\ \E autoStart \in BOOLEAN :
        HookStart(TrackerOptions(autoStart)) /\ TrackerStart(autoStart)
  /\ SysInit
  /\ UpInit
  /\ PairStart([k \in Sessions |-> FALSE])

Next ==
  \/ TrackerFlush
  \/ TrackerTick
  \/ ServerAdvance
  \/ \E i \in 1..MaxCalls : ServerAnswer(i)
  \/ \E i \in 1..MaxCalls : Deliver(i)
  \/ handleStop

Spec == Init /\ [][Next]_vars

\* a usePolling instance after its first render, under any options
HookInit ==
  /\ \E o \in Options : HookStart(o)
  /\ TrackerStart(FALSE)
  /\ SysInit
  /\ UpInit
  /\ PairStart([k \in Sessions |-> FALSE])

HookNext ==
  \/ \E o \in Options : Render(o)
  \/ HookFlush
  \/ HookTick
  \/ HookStop
  \/ Unmount

HookSpec == HookInit /\ [][HookNext]_vars


\* ---------------------------------------------------------------- System
\* every state a job can be in on the server
RECURSIVE SrvReach(_, _)
SrvReach(seen, frontier) ==
  IF frontier = {} THEN seen
  ELSE LET nxt == UNION {SrvNext(s) : s \in frontier}
       IN SrvReach(seen \cup frontier, nxt \ (seen \cup frontier))

SrvStates == SrvReach({}, {SrvInit})

\* number of status checks issued so far
SysIssued == Cardinality({i \in 1..MaxSysReqs : sysReqs[i].st # "free"})

\* FileUpload reports a successful upload; the server assigned a new job id
handleUploadSuccess ==
  /\ showUploadForm
  /\ uploads < MaxUploads
  /\ uploads' = uploads + 1
  /\ uploadedJob' = <<[job_id |-> uploads + 1]>>
  /\ showUploadForm' = FALSE
  /\ currentJobStatus' = <<>>
  /\ UNCHANGED <<checkingStatus, sysReqs, downloadLog>>
  /\ UNCHANGED <<hookVars, trackerVars, upVars, pairVars>>

\* the Process Another Dataset button
startNewUpload ==
  /\ ~showUploadForm
  /\ uploadedJob' = <<>>
  /\ currentJobStatus' = <<>>
  /\ showUploadForm' = TRUE
  /\ UNCHANGED <<checkingStatus, sysReqs, uploads, downloadLog>>
  /\ UNCHANGED <<hookVars, trackerVars, upVars, pairVars>>

\* the status check button (disabled while checkingStatus), up to the await
handleCheckForDownload ==
  /\ ~showUploadForm
  /\ ~checkingStatus
  /\ uploadedJob # <<>>
  /\ SysIssued < MaxSysReqs
  /\ checkingStatus' = TRUE
  /\ sysReqs' = [sysReqs EXCEPT ![SysIssued + 1] = Pending(uploadedJob[1].job_id)]
  /\ UNCHANGED <<uploadedJob, currentJobStatus, showUploadForm, uploads,
                 downloadLog>>
  /\ UNCHANGED <<hookVars, trackerVars, upVars, pairVars>>

\* the server (or the transport) produces the outcome of status check i
SysAnswer(i) ==
  /\ sysReqs[i].st = "pending"
  /\ \E r \in {Ok(Snapshot(sysReqs[i].job_id, s)) : s \in SrvStates} \cup Failures :
        sysReqs' = [sysReqs EXCEPT ![i] = Answered(r, i)]
  /\ UNCHANGED <<uploadedJob, currentJobStatus, checkingStatus, showUploadForm,
                 uploads, downloadLog>>
  /\ UNCHANGED <<hookVars, trackerVars, upVars, pairVars>>

\* setCurrentJobStatus(status)
CheckedStatus(r, current) == IF r.kind = "ok" THEN <<r.snap>> ELSE current

\* handleCheckForDownload after its await
SysDeliver(i) ==
  /\ sysReqs[i].st = "answered"
  /\ currentJobStatus' = CheckedStatus(sysReqs[i].resp, currentJobStatus)
  /\ checkingStatus' = FALSE
  /\ sysReqs' = [sysReqs EXCEPT ![i] = Done]
  /\ UNCHANGED <<uploadedJob, showUploadForm, uploads, downloadLog>>
  /\ UNCHANGED <<hookVars, trackerVars, upVars, pairVars>>

\* a download button shown for every status that has not failed
ShowDownloadUnlessFailed(status) ==
  status # <<>> /\ status[1].status # "failed"

\* currentJobStatus.status === 'completed' && currentJobStatus.download_url
ShowDownload(status) ==
  status # <<>> /\ status[1].status = "completed" /\ status[1].download_url

\* the Download Cleaned Dataset button of the status card:
\* apiService.getDownloadUrl(currentJobStatus.job_id), window.open
downloadClick ==
  /\ ~showUploadForm
  /\ ShowDownload(currentJobStatus)
  /\ downloadLog' = downloadLog \cup {currentJobStatus[1].job_id}
  /\ UNCHANGED <<uploadedJob, currentJobStatus, checkingStatus, showUploadForm,
                 sysReqs, uploads>>
  /\ UNCHANGED <<hookVars, trackerVars, upVars, pairVars>>

SysSpecInit ==
  /\ HookStart(TrackerOptions(FALSE))
  /\ TrackerStart(FALSE)
  /\ SysInit
  /\ UpInit
  /\ PairStart([k \in Sessions |-> FALSE])

SysNext ==
  \/ handleUploadSuccess
  \/ startNewUpload
  \/ handleCheckForDownload
  \/ \E i \in 1..MaxSysReqs : SysAnswer(i)
  \/ \E i \in 1..MaxSysReqs : SysDeliver(i)
  \/ downloadClick

SysSpec == SysSpecInit /\ [][SysNext]_vars

UpSpecInit ==
  /\ HookStart(TrackerOptions(FALSE))
  /\ TrackerStart(FALSE)
  /\ SysInit
  /\ UpInit
  /\ PairStart([k \in Sessions |-> FALSE])

UpNext ==
  \/ \E f \in Files : handleFileSelect(f)
  \/ clearFile
  \/ handleUpload
  \/ ProgressTick
  \/ \E k \in 1..MaxUploadCalls :
        \E r \in {[kind |-> "ok", data |-> UploadResponseOf(k)]} \cup UploadFailures :
           UploadSettle(k, r)

UpSpec == UpSpecInit /\ [][UpNext]_vars


\* ------------------------------------- JobStatusTracker, job that finishes
\* the status endpoint answers every query made once the job has finished
\* with the job's snapshot
LiveAnswer(i) ==
  /\ ServerAnswer(i)
  /\ srv.status \in Terminal => reqs'[i].resp.kind = "ok"

LiveNext ==
  \/ TrackerFlush
  \/ TrackerTick
  \/ ServerAdvance
  \/ \E i \in 1..MaxCalls : LiveAnswer(i)
  \/ \E i \in 1..MaxCalls : Deliver(i)
  \/ handleStop

\* effects are flushed after every render, an armed timer fires, every query
\* is answered and every answer arrives
LiveFairness ==
  /\ WF_vars(TrackerFlush)
  /\ WF_vars(TrackerTick)
  /\ \A i \in 1..MaxCalls : WF_vars(LiveAnswer(i))
  /\ \A i \in 1..MaxCalls : WF_vars(Deliver(i))

LiveSpec == Init /\ [][LiveNext]_vars /\ LiveFairness

\* ----------------------------------------- JobStatusTracker, jobId changing
\* the job ids the parent passes as the jobId prop
JobIds == {1, 2}

\* the parent renders the tracker with the id of a later job; job, error and
\* isPolling are state of the instance and stay
JobIdChange ==
  /\ mounted
  /\ \E id \in JobIds : id > trackedJob /\ trackedJob' = id
  /\ UNCHANGED <<isPolling, job, error, reqs, srv, answered, lastOrd, prevJob,
                 terminalSeen, onCompleteCalls, onErrorCalls, savedJob>>
  /\ UNCHANGED <<hookVars, sysVars, upVars, pairVars>>

\* the passive effects of a render that left the polling options alone are
\* flushed: savedCallback.current takes the callback of that render
CallbackFlush ==
  /\ mounted
  /\ deps = <<opts>>
  /\ savedJob # trackedJob
  /\ savedJob' = trackedJob
  /\ UNCHANGED <<isPolling, job, error, reqs, srv, answered, lastOrd, prevJob,
                 terminalSeen, onCompleteCalls, onErrorCalls, trackedJob>>
  /\ UNCHANGED <<hookVars, sysVars, upVars, pairVars>>

PropNext ==
  \/ Next
  \/ JobIdChange
  \/ CallbackFlush

PropSpec == Init /\ [][PropNext]_vars

\* ------------------------------------------- two JobStatusTracker instances
\* state kept in one cell shared by all instances
StateShared(k) == 1

\* the useState and useRef cells React keeps for instance k
StateOf(k) == k

\* n calls of apiService.getJobStatus(jobId) appended to the open queries
PairDispatch(q, k, n) == IF n = 1 THEN Append(q, Pending(jobId(k))) ELSE q

PairFlush(k) ==
  LET S == sess[StateOf(k)]
      e == EffectRun(S.opts, S.deps, S.intervalRef, winTimers, winNext)
  IN /\ S.deps # <<S.opts>>
     /\ S.opts.enabled => (pairCalls + e.n <= MaxCalls /\ winNext < MaxTimers)
     /\ sess' = [sess EXCEPT ![StateOf(k)] =
                   [S EXCEPT !.deps = <<S.opts>>,
                             !.intervalRef = e.ref,
                             !.reqs = PairDispatch(S.reqs, k, e.n)]]
     /\ winTimers' = e.timers
     /\ winNext' = e.next
     /\ pairCalls' = pairCalls + e.n
     /\ UNCHANGED <<hookVars, trackerVars, sysVars, upVars>>

\* the interval timer of instance k fires
PairTick(k) ==
  LET S == sess[StateOf(k)]
  IN /\ S.intervalRef \in winTimers
     /\ pairCalls < MaxCalls
     /\ sess' = [sess EXCEPT ![StateOf(k)] =
                   [S EXCEPT !.reqs = PairDispatch(S.reqs, k, 1)]]
     /\ pairCalls' = pairCalls + 1
     /\ UNCHANGED <<winTimers, winNext>>
     /\ UNCHANGED <<hookVars, trackerVars, sysVars, upVars>>

\* the server (or the transport) produces the outcome of query i of instance k
PairAnswer(k, i) ==
  LET S == sess[StateOf(k)]
  IN /\ i \in 1..Len(S.reqs)
     /\ S.reqs[i].st = "pending"
     /\ \E r \in {Ok(Snapshot(S.reqs[i].job_id, s)) : s \in SrvStates}
                 \cup Failures :
           sess' = [sess EXCEPT ![StateOf(k)] =
                      [S EXCEPT !.reqs[i] = Answered(r, 0)]]
     /\ UNCHANGED <<winTimers, winNext, pairCalls>>
     /\ UNCHANGED <<hookVars, trackerVars, sysVars, upVars>>

\* the promise of query i of instance k settles and fetchJobStatus resumes
PairDeliver(k, i) ==
  LET S == sess[StateOf(k)]
  IN /\ i \in 1..Len(S.reqs)
     /\ S.reqs[i].st = "answered"
     /\ LET f == fetchJobStatusIn(S.isPolling, S.job, S.reqs[i].resp)
        IN sess' = [sess EXCEPT ![StateOf(k)] =
                      [S EXCEPT !.job = f.job,
                                !.error = f.error,
                                !.isPolling = f.isPolling,
                                !.opts = TrackerOptions(f.isPolling),
                                !.reqs[i] = Done]]
     /\ UNCHANGED <<winTimers, winNext, pairCalls>>
     /\ UNCHANGED <<hookVars, trackerVars, sysVars, upVars>>

\* the Stop Tracking button of instance k
PairStop(k) ==
  LET S == sess[StateOf(k)]
      c == ClearIntervalRef(S.intervalRef, winTimers)
  IN /\ S.isPolling
     /\ S.job # <<>>
     /\ sess' = [sess EXCEPT ![StateOf(k)] =
                   [S EXCEPT !.isPolling = FALSE,
                             !.opts = TrackerOptions(FALSE),
                             !.intervalRef = c.ref]]
     /\ winTimers' = c.timers
     /\ UNCHANGED <<winNext, pairCalls>>
     /\ UNCHANGED <<hookVars, trackerVars, sysVars, upVars>>

PairSpecInit ==
  /\ HookStart(TrackerOptions(FALSE))
  /\ TrackerStart(FALSE)
  /\ SysInit
  /\ UpInit
  /\ \E autoStart \in [Sessions -> BOOLEAN] : PairStart(autoStart)

PairNext ==
  \/ \E k \in Sessions : PairFlush(k)
  \/ \E k \in Sessions : PairTick(k)
  \/ \E k \in Sessions : \E i \in 1..MaxCalls : PairAnswer(k, i)
  \/ \E k \in Sessions : \E i \in 1..MaxCalls : PairDeliver(k, i)
  \/ \E k \in Sessions : PairStop(k)

PairSpec == PairSpecInit /\ [][PairNext]_vars

\* ================================================================= claims
\* query i settles in this step
Settles(i) == reqs[i].st = "answered" /\ reqs'[i] = Done

NotFoundCalls ==
  Cardinality({k \in DOMAIN onErrorCalls : onErrorCalls[k] = JobNotFound})

BothNonTerminal ==
  /\ job # <<>> /\ job' # <<>>
  /\ job[1].status \in NonTerminal /\ job'[1].status \in NonTerminal

\* C1: once a completed or failed snapshot has been applied, the tracker
\* dispatches no further getJobStatus call.
OrigC1 == [][terminalSeen => calls' = calls]_vars

\* C2: in a session that ends with a completed snapshot and no error event,
\* onComplete is invoked exactly once and polling is disabled afterwards.
OrigC2 ==
  (onCompleteCalls >= 1 /\ onErrorCalls = <<>>)
     => (onCompleteCalls = 1 /\ ~isPolling)

\* C3: in a session where a poll fails with 404, onError('Job not found') is
\* invoked exactly once and polling is disabled.
OrigC3 == NotFoundCalls >= 1 => (NotFoundCalls = 1 /\ ~isPolling)

\* C4: a response that settles while polling is stopped changes neither the
\* held snapshot nor the error text and invokes neither callback.
OrigC4 ==
  [][\A i \in 1..MaxCalls :
       (Settles(i) /\ ~isPolling)
          => /\ job' = job
             /\ error' = error
             /\ onCompleteCalls' = onCompleteCalls
             /\ onErrorCalls' = onErrorCalls]_vars

\* C5: after stop() has returned, and as long as enabled is not switched
\* from false to true, the callback is never invoked again.
OrigC5 == [][stopped => calls' = calls]_vars

\* C6: at most one interval timer of a usePolling instance is active.
ThmC6 == Cardinality(timers) <= 1

\* a second timer runs after the first one was replaced
WitC6 == nextTimer >= 2 /\ timers # {} /\ intervalRef \in timers

\* C7: a failure whose status is not 404 leaves isPolling, the held snapshot,
\* the callbacks and the timer alone, and sets only the error text.
ThmC7 ==
  [][\A i \in 1..MaxCalls :
       (Settles(i) /\ reqs[i].resp.kind = "err" /\ reqs[i].resp.status # 404)
          => /\ isPolling' = isPolling
             /\ job' = job
             /\ onCompleteCalls' = onCompleteCalls
             /\ onErrorCalls' = onErrorCalls
             /\ opts' = opts
             /\ timers' = timers
             /\ intervalRef' = intervalRef
             /\ error' = (IF reqs[i].resp.detail # <<>>
                          THEN reqs[i].resp.detail
                          ELSE <<DefaultFetchError>>)]_vars

\* a transient failure was applied over a held snapshot and the timer runs on
WitC7 ==
  /\ error # <<>> /\ error[1] # JobNotFound
  /\ job # <<>>
  /\ isPolling
  /\ timers # {}
  /\ onErrorCalls = <<>>

\* C8: once the held snapshot is completed or failed, it is never replaced
\* by an uploaded or processing one.
OrigC8 ==
  [][(job # <<>> /\ job[1].status \in Terminal)
        => job'[1].status \in Terminal]_vars

\* C9 as stated: consecutive non-terminal snapshots never lower the
\* progress, whatever the arrival order.
OrigC9 == [][BothNonTerminal => job'[1].progress >= job[1].progress]_vars

\* C9 amended: a non-terminal snapshot that the server produced after the
\* one it replaces never lowers the progress.
ThmC9 ==
  [][(BothNonTerminal /\ lastOrd' > lastOrd)
        => job'[1].progress >= job[1].progress]_vars

\* two non-terminal snapshots were applied in turn and the progress rose
WitC9 ==
  /\ prevJob # <<>> /\ job # <<>>
  /\ prevJob[1].status \in NonTerminal /\ job[1].status \in NonTerminal
  /\ job[1].progress > prevJob[1].progress
  /\ lastOrd = 2

\* C10: whenever uploadedJob and currentJobStatus are both set, the status
\* is one of uploadedJob.job_id.
OrigC10 ==
  (uploadedJob # <<>> /\ currentJobStatus # <<>>)
     => currentJobStatus[1].job_id = uploadedJob[1].job_id


\* ---------------------------------------------------- claims on FileUpload
\* upload k settles in this step
UploadSettles(k) == upReqs[k].st = "pending" /\ upReqs'[k] = Done

\* number of upload requests issued so far
UpIssued == Cardinality({k \in 1..MaxUploadCalls : upReqs[k] # Free})

Reported == Len(onUploadSuccessCalls) + Len(onUploadErrorCalls)

\* the accepted set: the comma-separated entries of acceptedTypes
AcceptedSet ==
  LET n == Len(AcceptedTypes)
      starts == {i \in 1..n : i = 1 \/ AcceptedTypes[i - 1] = ","}
      endOf(i) == CHOOSE j \in i..n :
                     /\ j = n \/ AcceptedTypes[j + 1] = ","
                     /\ \A m \in i..j : AcceptedTypes[m] # ","
  IN {SubSeq(AcceptedTypes, i, endOf(i)) : i \in starts}

HasDot(name) == \E i \in 1..Len(name) : name[i] = "."

\* C11: a file larger than maxSize*1024*1024 bytes is never selected and
\* never uploaded; offering it leaves the selection alone; a file of exactly
\* that size (of an accepted type) becomes the selected file.
ThmC11 ==
  /\ [](/\ selectedFile # <<>> => selectedFile[1].size <= 1024 * 1024 * 1024
        /\ \A k \in 1..MaxUploadCalls :
              upReqs[k].st = "pending"
                 => upReqs[k].file.size <= 1024 * 1024 * 1024)
  /\ [][\A f \in Files :
          handleFileSelect(f)
             => /\ f.size > 1024 * 1024 * 1024 => selectedFile' = selectedFile
                /\ (f.size = 1024 * 1024 * 1024
                      /\ FileExtension(f.name) \in AcceptedSet)
                     => selectedFile' = <<f>>]_vars

\* the file of exactly the limit is being uploaded after a larger one was
\* turned away
WitC11 ==
  /\ selectedFile # <<>> /\ selectedFile[1].size = 1024 * 1024 * 1024
  /\ lastPick # <<>> /\ lastPick[1].size > 1024 * 1024 * 1024
  /\ \E k \in 1..MaxUploadCalls :
        upReqs[k].st = "pending" /\ upReqs[k].file = selectedFile[1]

\* C12: the selected file always has an extension ('.' and the lower-cased
\* text after the last dot of its name) that is a member of the accepted
\* set.
OrigC12 ==
  selectedFile # <<>>
     => /\ HasDot(selectedFile[1].name)
        /\ FileExtension(selectedFile[1].name) \in AcceptedSet

ThmC14 ==
  /\ [](UpIssued <= uploadCalls)
  /\ [][UpIssued' # UpIssued
          => (UpIssued' = UpIssued + 1 /\ uploadCalls' = uploadCalls + 1)]_vars

\* an upload failed and no second request followed
WitC14 ==
  /\ onUploadErrorCalls # <<>>
  /\ uploadCalls = 1
  /\ UpIssued = 1
  /\ ~uploading

\* C19: a failed upload passes the server's detail to onUploadError when the
\* response carries one, and the generic message otherwise.
ThmC19 ==
  [][\A k \in 1..MaxUploadCalls : \A r \in UploadFailures :
       UploadSettle(k, r)
          => onUploadErrorCalls' =
                Append(onUploadErrorCalls,
                       IF r.detail # <<>> THEN r.detail[1]
                       ELSE "Upload failed. Please try again.")]_vars

\* one failure was reported with the server's detail, another with the
\* generic message
WitC19 ==
  \E i, j \in DOMAIN onUploadErrorCalls :
     /\ onUploadErrorCalls[i] = "Invalid quality mode"
     /\ onUploadErrorCalls[j] = "Upload failed. Please try again."


ThmC16 ==
  [][HookStop
        => /\ intervalRef' = 0
           /\ timers' = timers \ {intervalRef}
           /\ timers = {}
                => UNCHANGED <<opts, deps, intervalRef, timers, nextTimer,
                               calls, mounted>>]_vars

\* stop() has been called on a driver that was disabled and had no timer
WitC16 ==
  /\ stopIdle
  /\ deps # <<>> /\ ~deps[1].enabled
  /\ nextTimer >= 1
  /\ timers = {}

\* C20: applying a failed snapshot disables polling and passes the
\* snapshot's message to onError, 'Job failed' when the message is empty.
ThmC20 ==
  [][\A i \in 1..MaxCalls :
       (Settles(i) /\ reqs[i].resp.kind = "ok"
                   /\ reqs[i].resp.snap.status = "failed")
          => /\ isPolling' = FALSE
             /\ opts'.enabled = FALSE
             /\ onCompleteCalls' = onCompleteCalls
             /\ onErrorCalls' =
                  Append(onErrorCalls,
                         IF reqs[i].resp.snap.message # ""
                         THEN reqs[i].resp.snap.message ELSE "Job failed")]_vars

\* a failed snapshot with a message was applied and reported
WitC20 ==
  /\ job # <<>> /\ job[1].status = "failed"
  /\ ~isPolling
  /\ onErrorCalls = <<"corrupt archive">>


\* a step taken by instance k
PairStep(k) ==
  \/ PairFlush(k)
  \/ PairTick(k)
  \/ \E i \in 1..MaxCalls : PairAnswer(k, i)
  \/ \E i \in 1..MaxCalls : PairDeliver(k, i)
  \/ PairStop(k)

\* C18: a dispatch, an arrival, an error or a stop in one tracker leaves the
\* snapshot, the error, the polling flag and the timer of the other unchanged.
ThmC18 ==
  [][\A k \in Sessions : \A o \in Sessions \ {k} :
       PairStep(k)
          => /\ sess'[o].job = sess[o].job
             /\ sess'[o].error = sess[o].error
             /\ sess'[o].isPolling = sess[o].isPolling
             /\ sess'[o].intervalRef = sess[o].intervalRef
             /\ (sess'[o].intervalRef \in winTimers')
                   = (sess[o].intervalRef \in winTimers)]_vars

\* one tracker was stopped by a 404 while the other holds its own job's
\* snapshot and goes on polling
WitC18 ==
  /\ ~sess[1].isPolling
  /\ sess[1].error = <<JobNotFound>>
  /\ sess[2].isPolling
  /\ sess[2].job # <<>> /\ sess[2].job[1].job_id = jobId(2)
  /\ sess[2].intervalRef \in winTimers

\* ---------------------------------------------------- claims, third series
\* an upload request is in flight
UploadInFlight == \E k \in 1..MaxUploadCalls : upReqs[k].st = "pending"

\* C25: while an upload request is in flight the progress shown is at most
\* 90, and it is 100 only when no request is in flight and a success was
\* reported.
ThmC25 ==
  /\ UploadInFlight => uploadProgress <= 90
  /\ uploadProgress = 100
       => (~UploadInFlight /\ onUploadSuccessCalls # <<>>)

\* the estimate has reached its cap while the request is still in flight
WitC25 == UploadInFlight /\ uploading /\ uploadProgress = 90

\* C27: after handleUpload has settled no progress timer is active,
\* uploading is false and uploadProgress is 0 until the next upload starts.
OrigC27 ==
  (uploadCalls >= 1 /\ ~UploadInFlight)
     => (progressTimers = {} /\ ~uploading /\ uploadProgress = 0)

\* C30: a file that handleFileSelect turns away for its size or its type
\* leaves the selected file as it was, and a request carries the file that
\* was selected when handleUpload ran.
ThmC30 ==
  /\ [][\A f \in Files :
          (handleFileSelect(f)
             /\ (f.size > 1024 * 1024 * 1024 \/ TypeRejected(f.name)))
             => selectedFile' = selectedFile]_vars
  /\ [][handleUpload
          => /\ selectedFile # <<>>
             /\ upReqs'[uploadCalls'] = UploadPending(selectedFile[1])]_vars

\* the earlier file is being uploaded after another one was turned away
WitC30 ==
  /\ lastPick # <<>> /\ TypeRejected(lastPick[1].name)
  /\ selectedFile # <<>> /\ selectedFile[1] # lastPick[1]
  /\ \E k \in 1..MaxUploadCalls :
        upReqs[k].st = "pending" /\ upReqs[k].file = selectedFile[1]

\* number of status queries of the tracker that have not settled
InFlight ==
  Cardinality({i \in 1..MaxCalls : reqs[i].st \in {"pending", "answered"}})

\* C21: the held snapshot is the one of the successful response that arrived
\* last, whatever the order of the requests and of the server's answers.
ThmC21 ==
  /\ [][\A i \in 1..MaxCalls :
          (Settles(i) /\ reqs[i].resp.kind = "ok")
             => job' = <<reqs[i].resp.snap>>]_vars
  /\ [][job' # job
          => \E i \in 1..MaxCalls :
                Settles(i) /\ reqs[i].resp.kind = "ok"]_vars

\* the answer the server produced first arrived last and replaced the newer
\* snapshot
WitC21 ==
  /\ prevJob # <<>> /\ prevJob[1].status = "processing"
  /\ job # <<>> /\ job[1].status = "uploaded"
  /\ lastOrd = 1
  /\ answered = 2

\* C22: applying an uploaded or processing snapshot replaces the held
\* snapshot, clears the error text and does nothing else.
ThmC22 ==
  [][\A i \in 1..MaxCalls :
       (Settles(i) /\ reqs[i].resp.kind = "ok"
                   /\ reqs[i].resp.snap.status \in {"uploaded", "processing"})
          => /\ job' = <<reqs[i].resp.snap>>
             /\ error' = <<>>
             /\ isPolling' = isPolling
             /\ opts' = opts
             /\ timers' = timers
             /\ intervalRef' = intervalRef
             /\ onCompleteCalls' = onCompleteCalls
             /\ onErrorCalls' = onErrorCalls]_vars

\* a processing snapshot has replaced an uploaded one and polling goes on
WitC22 ==
  /\ prevJob # <<>> /\ prevJob[1].status = "uploaded"
  /\ job # <<>> /\ job[1].status = "processing"
  /\ error = <<>>
  /\ isPolling /\ timers # {}
  /\ onCompleteCalls = 0 /\ onErrorCalls = <<>>

\* C23: a tick dispatches a status query whether or not an earlier one has
\* settled, so that two queries of the tracker are in flight at once.
ThmC23 == [][TrackerTick => InFlight' = InFlight + 1]_vars

\* two queries of a tracker that is polling are in flight
WitC23 ==
  /\ isPolling /\ timers # {}
  /\ ~terminalSeen
  /\ reqs[1].st = "pending" /\ reqs[2].st = "pending"

\* C29: isPolling never goes from false to true, and a tracker that starts
\* with isPolling false dispatches no status query.
ThmC29 ==
  /\ [][isPolling' => isPolling]_vars
  /\ [][opts'.enabled => opts.enabled]_vars
  /\ [][(~isPolling /\ calls = 0) => calls' = 0]_vars

\* polling was disabled by a terminal snapshot and a late snapshot of a job
\* in progress did not switch it on again
WitC29 ==
  /\ terminalSeen
  /\ job # <<>> /\ job[1].status \in {"uploaded", "processing"}
  /\ ~isPolling /\ ~opts.enabled

\* C24: every snapshot the tracker holds is one of the job its jobId prop
\* names.
OrigC24 == job # <<>> => job[1].job_id = trackedJob

\* C26: a run of the polling effect with enabled invokes the callback once
\* when immediate is set and not at all otherwise, so that the first
\* invocation is then a periodic tick; while enabled is false the callback
\* is not invoked.
OrigC26 ==
  /\ [][(HookFlush /\ opts.enabled /\ opts.immediate)
          => calls' = calls + 1]_vars
  /\ [][(HookFlush /\ ~(opts.enabled /\ opts.immediate))
          => calls' = calls]_vars
  /\ [][~opts.enabled => calls' = calls]_vars

\* a status query is unanswered, or the driver can still issue one
QueryAhead ==
  \/ \E i \in 1..MaxCalls : reqs[i].st = "pending"
  \/ calls < MaxCalls

PollingOff == ~isPolling /\ timers = {}

\* C28: when the job has finished on the server while the tracker is polling
\* and a status query is still to be answered, polling is eventually
\* disabled and no timer is active, for good.
ThmC28 == (isPolling /\ srv.status \in Terminal /\ QueryAhead) ~> []PollingOff

\* the tracker has applied the terminal snapshot and its timer is cleared
WitC28 ==
  /\ PollingOff
  /\ deps = <<opts>>
  /\ terminalSeen
  /\ job # <<>> /\ job[1].status \in Terminal
  /\ nextTimer >= 1

====
